---- MODULE Spec2Model ----
(***************************************************************************)
(* Model of supplemental-resources/pdf_to_text_temp.py: a script that      *)
(* opens a PDF, extracts the text of each page, prefixes each page with a  *)
(* marker line, joins the sections and writes them to a text file.         *)
(*                                                                         *)
(* Text is modelled as a sequence of one-character strings, so that        *)
(* formatting, joining, truncation and substring search are computed.      *)
(* The file system (the source document, the destination directory and     *)
(* file, the free space of the disk) is the environment: Init draws it     *)
(* from small sets, and the free space is drawn at the write.              *)
(* The script is run twice in succession with the same command line.       *)
(***************************************************************************)
EXTENDS Integers, Sequences, FiniteSets

VARIABLES
    argv,        \* sys.argv: program name followed by the positional arguments
    srcStatus,   \* the source path on disk: "ok", "missing", "unreadable", "invalid"
    doc,         \* the pages of the document stored at the source path
    destDir,     \* the destination's directory: "ok", "noparent", "denied"
    file,        \* the destination file: [exists, data]
    run,         \* which invocation this is: 1 or 2
    pc,          \* the position of the script
    source,      \* Path(sys.argv[1])
    target,      \* Path(sys.argv[2])
    reader,      \* reader.pages once the document is open
    sections,    \* the list of sections
    count,       \* pages the for loop has consumed
    output,      \* "\n\n".join(sections), the argument of write_text
    stdout,      \* messages printed by this invocation
    stderr,      \* what the interpreter reports for this invocation
    exitStatus,  \* exit status of this invocation (-1 while it runs)
    failure,     \* the exception that ended this invocation, if any
    ioLog,       \* file-system accesses of this invocation, in order
    fileAtStart, \* the destination file when this invocation began
    prevFailure  \* the exception that ended the previous invocation, if any

vars == <<argv, srcStatus, doc, destDir, file, run, pc, source, target, reader,
          sections, count, output, stdout, stderr, exitStatus, failure, ioLog,
          fileAtStart, prevFailure>>

env == <<argv, srcStatus, doc, destDir>>

(***************************************************************************)
(* Bounds of the model.                                                    *)
(***************************************************************************)
MaxPages == 3

MaxDiskFree == 2

(***************************************************************************)
(* Text.                                                                   *)
(***************************************************************************)
NL == "\n"

Digits == <<"0", "1", "2", "3", "4", "5", "6", "7", "8", "9">>

\* str(n) of a non-negative integer, as an f-string formats it
RECURSIVE Decimal(_)
Decimal(n) ==
    IF n < 10 THEN <<Digits[n + 1]>>
    ELSE Decimal(n \div 10) \o <<Digits[(n % 10) + 1]>>

MarkerPrefix == <<"-", "-", "-", " ", "P", "A", "G", "E", " ">>

MarkerSuffix == <<" ", "-", "-", "-">>

Separator == <<NL, NL>>

Hello == <<"H", "e", "l", "l", "o">>

World == <<"W", "o", "r", "l", "d">>

MarkerLikeText == MarkerPrefix \o <<"2">> \o MarkerSuffix

NoneText == <<"N", "o", "n", "e">>

UsageMessage == "Usage: python pdf_to_text_temp.py <input.pdf> <output.txt>"

(***************************************************************************)
(* What page.extract_text() can do: return None, return a string (the      *)
(* empty one included), or raise.                                          *)
(***************************************************************************)
NoneResult == [kind |-> "none", text |-> <<>>]

RaiseResult == [kind |-> "raise", text |-> <<>>]

TextResult(t) == [kind |-> "text", text |-> t]

PageResults ==
    {NoneResult, RaiseResult, TextResult(<<>>), TextResult(Hello),
     TextResult(World), TextResult(MarkerLikeText)}

Docs == UNION {[1..n -> PageResults] : n \in 0..MaxPages}

OldContent == <<"o", "l", "d", NL>>

Absent == [exists |-> FALSE, data |-> <<>>]

Argvs ==
    {<<"pdf_to_text_temp.py">>,
     <<"pdf_to_text_temp.py", "in.pdf">>,
     <<"pdf_to_text_temp.py", "in.pdf", "out.txt">>,
     <<"pdf_to_text_temp.py", "in.pdf", "out.txt", "extra">>}

NoFailure == [stage |-> "none", exc |-> "none"]

\* the extraction result used as it is: an f-string formats None as "None"
OrEmptyMissing(r) == IF r.kind = "none" THEN NoneText ELSE r.text

\* text = page.extract_text() or ""
OrEmpty(r) == IF r.kind = "none" \/ r.text = <<>> THEN <<>> ELSE r.text

\* f"--- PAGE {idx} ---\n{text}"
Section(idx, text) ==
    MarkerPrefix \o Decimal(idx) \o MarkerSuffix \o <<NL>> \o text

\* a join that puts the separator after every element
RECURSIVE JoinTrailingSep(_, _)
JoinTrailingSep(sep, list) ==
    IF list = <<>> THEN <<>>
    ELSE list[1] \o sep \o JoinTrailingSep(sep, Tail(list))

\* sep.join(list)
RECURSIVE Join(_, _)
Join(sep, list) ==
    IF list = <<>> THEN <<>>
    ELSE IF Len(list) = 1 THEN list[1]
    ELSE list[1] \o sep \o Join(sep, Tail(list))

\* enumerate without start=1
EnumerateStartZero == 1 - 1

\* enumerate(..., start=1)
EnumerateStart == 1

\* f"Wrote {target} ({len(reader.pages)} pages)"
Message(t, n) == <<"Wrote ", t, " (">> \o Decimal(n) \o <<" pages)">>

Access(op, path, ok) == [op |-> op, path |-> path, ok |-> ok]

(***************************************************************************)
(* The state when the script is first started.                             *)
(***************************************************************************)
Init ==
    /\ argv \in Argvs
    /\ srcStatus \in {"ok", "missing", "unreadable", "invalid"}
    /\ doc \in (IF srcStatus = "ok" THEN Docs ELSE {<<>>})
    /\ destDir \in {"ok", "noparent", "denied"}
    /\ file \in (IF destDir = "noparent" THEN {Absent}
                 ELSE {Absent, [exists |-> TRUE, data |-> OldContent]})
    /\ run = 1
    /\ pc = "start"
    /\ source = ""
    /\ target = ""
    /\ reader = <<>>
    /\ sections = <<>>
    /\ count = 0
    /\ output = <<>>
    /\ stdout = <<>>
    /\ stderr = <<>>
    /\ exitStatus = -1
    /\ failure = NoFailure
    /\ ioLog = <<>>
    /\ fileAtStart = file
    /\ prevFailure = NoFailure

\* an uncaught exception: traceback on stderr, exit status 1
Raise(stage, exc) ==
    /\ failure' = [stage |-> stage, exc |-> exc]
    /\ stderr' = Append(stderr, exc)
    /\ exitStatus' = 1
    /\ pc' = "exited"

\* the check written as len(sys.argv) < 2: sys.argv[2] then raises IndexError
ArgCheckOffByOne ==
    /\ pc = "start"
    /\ IF Len(argv) < 2
       THEN /\ failure' = [stage |-> "usage", exc |-> "SystemExit"]
            /\ stderr' = Append(stderr, UsageMessage)
            /\ exitStatus' = 1
            /\ pc' = "exited"
            /\ UNCHANGED <<source, target>>
       ELSE IF Len(argv) < 3
       THEN /\ Raise("paths", "IndexError")
            /\ source' = argv[2]
            /\ UNCHANGED target
       ELSE /\ source' = argv[2]
            /\ target' = argv[3]
            /\ pc' = "open"
            /\ UNCHANGED <<failure, stderr, exitStatus>>
    /\ UNCHANGED <<env, file, run, reader, sections, count, output, stdout,
                   ioLog, fileAtStart, prevFailure>>

(***************************************************************************)
(* Lines 6-10: the argument check and the two paths.                       *)
(***************************************************************************)
ArgCheck ==
    /\ pc = "start"
    /\ IF Len(argv) < 3
       THEN /\ failure' = [stage |-> "usage", exc |-> "SystemExit"]
            /\ stderr' = Append(stderr, UsageMessage)
            /\ exitStatus' = 1
            /\ pc' = "exited"
            /\ UNCHANGED <<source, target>>
       ELSE /\ source' = argv[2]
            /\ target' = argv[3]
            /\ pc' = "open"
            /\ UNCHANGED <<failure, stderr, exitStatus>>
    /\ UNCHANGED <<env, file, run, reader, sections, count, output, stdout,
                   ioLog, fileAtStart, prevFailure>>

\* an open whose failure is caught and replaced by an empty document
OpenSourceSwallow ==
    /\ pc = "open"
    /\ ioLog' = Append(ioLog, Access("open_r", source, srcStatus = "ok"))
    /\ reader' = doc
    /\ sections' = <<>>
    /\ count' = 0
    /\ pc' = "loop"
    /\ UNCHANGED <<failure, stderr, exitStatus>>
    /\ UNCHANGED <<env, file, run, source, target, output, stdout,
                   fileAtStart, prevFailure>>

(***************************************************************************)
(* Lines 12-13: PdfReader(source) and the empty list of sections.          *)
(***************************************************************************)
OpenSource ==
    /\ pc = "open"
    /\ ioLog' = Append(ioLog, Access("open_r", source, srcStatus = "ok"))
    /\ IF srcStatus = "ok"
       THEN /\ reader' = doc
            /\ sections' = <<>>
            /\ count' = 0
            /\ pc' = "loop"
            /\ UNCHANGED <<failure, stderr, exitStatus>>
       ELSE /\ Raise("open", CASE srcStatus = "missing" -> "FileNotFoundError"
                               [] srcStatus = "unreadable" -> "PermissionError"
                               [] OTHER -> "PdfReadError")
            /\ UNCHANGED <<reader, sections, count>>
    /\ UNCHANGED <<env, file, run, source, target, output, stdout,
                   fileAtStart, prevFailure>>

(***************************************************************************)
(* Lines 14-16: one iteration of the loop over enumerate(reader.pages).    *)
(***************************************************************************)
ExtractPage ==
    /\ pc = "loop"
    /\ count < Len(reader)
    /\ LET idx == EnumerateStart + count
           page == reader[count + 1]
       IN IF page.kind = "raise"
          THEN /\ Raise("extract", "Exception")
               /\ UNCHANGED <<sections, count>>
          ELSE /\ sections' = Append(sections, Section(idx, OrEmpty(page)))
               /\ count' = count + 1
               /\ UNCHANGED <<failure, stderr, exitStatus, pc>>
    /\ UNCHANGED <<env, file, run, source, target, reader, output, stdout,
                   ioLog, fileAtStart, prevFailure>>

\* the target opened for appending: created if absent, never truncated
WriteOpenAppend ==
    /\ pc = "loop"
    /\ count = Len(reader)
    /\ output' = Join(Separator, sections)
    /\ ioLog' = Append(ioLog, Access("open_w", target, destDir = "ok"))
    /\ IF destDir = "ok"
       THEN /\ file' = [exists |-> TRUE, data |-> file.data]
            /\ pc' = "write"
            /\ UNCHANGED <<failure, stderr, exitStatus>>
       ELSE /\ Raise("write", IF destDir = "noparent" THEN "FileNotFoundError"
                              ELSE "PermissionError")
            /\ UNCHANGED file
    /\ UNCHANGED <<env, run, source, target, reader, sections, count, stdout,
                   fileAtStart, prevFailure>>

(***************************************************************************)
(* Line 18: the join, then write_text opens the target for writing, which  *)
(* creates or truncates it.                                                *)
(***************************************************************************)
WriteOpen ==
    /\ pc = "loop"
    /\ count = Len(reader)
    /\ output' = Join(Separator, sections)
    /\ ioLog' = Append(ioLog, Access("open_w", target, destDir = "ok"))
    /\ IF destDir = "ok"
       THEN /\ file' = [exists |-> TRUE, data |-> <<>>]
            /\ pc' = "write"
            /\ UNCHANGED <<failure, stderr, exitStatus>>
       ELSE /\ Raise("write", IF destDir = "noparent" THEN "FileNotFoundError"
                              ELSE "PermissionError")
            /\ UNCHANGED file
    /\ UNCHANGED <<env, run, source, target, reader, sections, count, stdout,
                   fileAtStart, prevFailure>>

\* a write that ends the text with a newline, as print(..., file=f) would
WriteDataNewline ==
    /\ pc = "write"
    /\ \E free \in 0..(MaxDiskFree + 1) :
          LET text == output \o <<NL>>
              enough == free > MaxDiskFree \/ Len(text) <= free
              written == IF enough THEN text ELSE SubSeq(text, 1, free)
          IN /\ file' = [exists |-> TRUE, data |-> file.data \o written]
             /\ ioLog' = Append(ioLog, Access("write", target, enough))
             /\ IF enough
                THEN /\ pc' = "print"
                     /\ UNCHANGED <<failure, stderr, exitStatus>>
                ELSE Raise("write", "OSError")
    /\ UNCHANGED <<env, run, source, target, reader, sections, count, output,
                   stdout, fileAtStart, prevFailure>>

\* a write whose failure is caught and ignored
WriteDataSwallow ==
    /\ pc = "write"
    /\ \E free \in 0..(MaxDiskFree + 1) :
          LET enough == free > MaxDiskFree \/ Len(output) <= free
              written == IF enough THEN output ELSE SubSeq(output, 1, free)
          IN /\ file' = [exists |-> TRUE, data |-> file.data \o written]
             /\ ioLog' = Append(ioLog, Access("write", target, enough))
             /\ pc' = "print"
             /\ UNCHANGED <<failure, stderr, exitStatus>>
    /\ UNCHANGED <<env, run, source, target, reader, sections, count, output,
                   stdout, fileAtStart, prevFailure>>

(***************************************************************************)
(* Line 18: write_text writes the text at the file position and closes.    *)
(* The disk has room for `free` more characters, or for all of them.       *)
(***************************************************************************)
WriteData ==
    /\ pc = "write"
    /\ \E free \in 0..(MaxDiskFree + 1) :
          LET enough == free > MaxDiskFree \/ Len(output) <= free
              written == IF enough THEN output ELSE SubSeq(output, 1, free)
          IN /\ file' = [exists |-> TRUE, data |-> file.data \o written]
             /\ ioLog' = Append(ioLog, Access("write", target, enough))
             /\ IF enough
                THEN /\ pc' = "print"
                     /\ UNCHANGED <<failure, stderr, exitStatus>>
                ELSE Raise("write", "OSError")
    /\ UNCHANGED <<env, run, source, target, reader, sections, count, output,
                   stdout, fileAtStart, prevFailure>>

(***************************************************************************)
(* Line 19: the completion message, and the end of the script.             *)
(***************************************************************************)
PrintDone ==
    /\ pc = "print"
    /\ stdout' = Append(stdout, Message(target, Len(reader)))
    /\ exitStatus' = 0
    /\ pc' = "exited"
    /\ UNCHANGED <<env, file, run, source, target, reader, sections, count,
                   output, stderr, failure, ioLog, fileAtStart, prevFailure>>

(***************************************************************************)
(* The same command line is run a second time: a new process, the same     *)
(* file system.                                                            *)
(***************************************************************************)
Rerun ==
    /\ pc = "exited"
    /\ run = 1
    /\ run' = 2
    /\ prevFailure' = failure
    /\ fileAtStart' = file
    /\ pc' = "start"
    /\ source' = ""
    /\ target' = ""
    /\ reader' = <<>>
    /\ sections' = <<>>
    /\ count' = 0
    /\ output' = <<>>
    /\ stdout' = <<>>
    /\ stderr' = <<>>
    /\ exitStatus' = -1
    /\ failure' = NoFailure
    /\ ioLog' = <<>>
    /\ UNCHANGED <<env, file>>

Next ==
    \/ ArgCheck
    \/ OpenSource
    \/ ExtractPage
    \/ WriteOpen
    \/ WriteData
    \/ PrintDone
    \/ Rerun

Spec == Init /\ [][Next]_vars

(***************************************************************************)
(* Auxiliary definitions for the properties.                               *)
(***************************************************************************)
Exited == pc = "exited"

\* the join of line 18 has been evaluated in this invocation
Joined ==
    \/ pc \in {"write", "print"}
    \/ Exited /\ \E i \in DOMAIN ioLog : ioLog[i].op = "open_w"

\* the text pat occurs in s at position i
OccursAt(s, i, pat) ==
    /\ i >= 1
    /\ i + Len(pat) - 1 <= Len(s)
    /\ \A j \in 1..Len(pat) : s[i + j - 1] = pat[j]

IsDigit(c) == \E d \in 1..10 : Digits[d] = c

DigitValue(c) == (CHOOSE d \in 1..10 : Digits[d] = c) - 1

\* the number of consecutive digits of s from position i on
RECURSIVE DigitRun(_, _)
DigitRun(s, i) ==
    IF i <= Len(s) /\ IsDigit(s[i]) THEN 1 + DigitRun(s, i + 1) ELSE 0

\* a text of the form "--- PAGE <digits> ---" starts at position i of s
IsMarkerAt(s, i) ==
    /\ OccursAt(s, i, MarkerPrefix)
    /\ LET d == DigitRun(s, i + Len(MarkerPrefix))
       IN /\ d >= 1
          /\ OccursAt(s, i + Len(MarkerPrefix) + d, MarkerSuffix)

\* the number the digits of s at positions i .. i+d-1 spell
RECURSIVE NumberAt(_, _, _)
NumberAt(s, i, d) ==
    IF d = 0 THEN 0
    ELSE 10 * NumberAt(s, i, d - 1) + DigitValue(s[i + d - 1])

MarkerNumberAt(s, i) ==
    NumberAt(s, i + Len(MarkerPrefix), DigitRun(s, i + Len(MarkerPrefix)))

MarkerPositions(s) == {i \in 1..Len(s) : IsMarkerAt(s, i)}

\* s holds exactly n markers, and the k-th of them in order carries number k
ExactlyMarkers(s, n) ==
    /\ Cardinality(MarkerPositions(s)) = n
    /\ \A i \in MarkerPositions(s) :
          MarkerNumberAt(s, i) = Cardinality({j \in MarkerPositions(s) : j <= i})

\* the marker line of page k, as the specification writes it
MarkerLine(k) == MarkerPrefix \o Decimal(k) \o MarkerSuffix \o <<NL>>

\* the text of a page, empty when the extraction gave none
PageText(r) == IF r.kind = "text" THEN r.text ELSE <<>>

\* where the section of page k starts in the output of the pages
RECURSIVE SectionOffset(_, _)
SectionOffset(pages, k) ==
    IF k = 1 THEN 1
    ELSE SectionOffset(pages, k - 1) + Len(MarkerLine(k - 1))
         + Len(PageText(pages[k - 1])) + Len(Separator)

NoMarkerInPages(pages) ==
    \A k \in DOMAIN pages : MarkerPositions(PageText(pages[k])) = {}

\* the output the specification describes for the first n pages
RECURSIVE ExpectedOutput(_, _)
ExpectedOutput(pages, n) ==
    IF n = 0 THEN <<>>
    ELSE ExpectedOutput(pages, n - 1)
         \o (IF n > 1 THEN <<NL, NL>> ELSE <<>>)
         \o MarkerLine(n) \o PageText(pages[n])

ExamplePages == <<TextResult(Hello), TextResult(<<>>), TextResult(World)>>

ExampleOutput ==
    <<"-", "-", "-", " ", "P", "A", "G", "E", " ", "1", " ", "-",
      "-", "-", "\n", "H", "e", "l", "l", "o", "\n", "\n", "-", "-",
      "-", " ", "P", "A", "G", "E", " ", "2", " ", "-", "-", "-",
      "\n", "\n", "\n", "-", "-", "-", " ", "P", "A", "G", "E", " ",
      "3", " ", "-", "-", "-", "\n", "W", "o", "r", "l", "d">>

WriteSucceeded ==
    \E i \in DOMAIN ioLog : ioLog[i].op = "write" /\ ioLog[i].ok

(***************************************************************************)
(* C1 as stated: for every N-page document and every per-page text, the    *)
(* output text contains exactly N markers "--- PAGE k ---", numbered 1..N  *)
(* in ascending, contiguous order.                                         *)
(***************************************************************************)
C1_ExactlyNMarkersAnyText ==
    Joined => ExactlyMarkers(output, Len(reader))

(***************************************************************************)
(* C1 amended: the loop builds one section per page, the k-th beginning    *)
(* with the marker line of k, and the output holds them at the sections'   *)
(* offsets in page order; the output holds exactly N markers, numbered     *)
(* 1..N in order, when no page text itself contains a text of the form     *)
(* of a marker.                                                            *)
(***************************************************************************)
C1_SectionMarkers ==
    /\ Len(sections) = count
    /\ \A k \in 1..Len(sections) : OccursAt(sections[k], 1, MarkerLine(k))
    /\ Joined =>
          /\ Len(sections) = Len(reader)
          /\ \A k \in 1..Len(reader) :
                OccursAt(output, SectionOffset(reader, k), MarkerLine(k))
          /\ NoMarkerInPages(reader) => ExactlyMarkers(output, Len(reader))

C1_Witness ==
    /\ Joined
    /\ Len(reader) = 3
    /\ NoMarkerInPages(reader)
    /\ reader[2] = TextResult(Hello)
    /\ Cardinality(MarkerPositions(output)) = 3

(***************************************************************************)
(* C2: the text written to the destination is the sections                 *)
(* "--- PAGE i ---\n" + ti in page order with exactly "\n\n" between       *)
(* consecutive sections and no leading or trailing separator; the pages    *)
(* "Hello", "", "World" give the text of the example.                      *)
(***************************************************************************)
C2_OutputIsJoinedSections ==
    /\ Joined =>
          /\ output = ExpectedOutput(reader, Len(reader))
          /\ reader = ExamplePages => output = ExampleOutput
    /\ WriteSucceeded => file = [exists |-> TRUE, data |-> output]

C2_Witness ==
    /\ WriteSucceeded
    /\ reader = ExamplePages
    /\ file.data = ExampleOutput

OpenSucceeded ==
    \E i \in DOMAIN ioLog : ioLog[i].op = "open_r" /\ ioLog[i].ok

DestinationTouched ==
    \E i \in DOMAIN ioLog : ioLog[i].op \in {"open_w", "write"}

NoExtractionRaises == \A k \in DOMAIN doc : doc[k].kind # "raise"

(***************************************************************************)
(* C3 as stated: if the write of the output fails (missing parent          *)
(* directory, permission denied, disk full part-way), then after the run   *)
(* the destination holds the complete output or is exactly as it was       *)
(* before the run.                                                         *)
(***************************************************************************)
C3_AllOrNothingWrite ==
    (Exited /\ failure.stage = "write") =>
        \/ file = fileAtStart
        \/ file = [exists |-> TRUE, data |-> output]

(***************************************************************************)
(* C4: when the input path is missing, unreadable or not a valid document  *)
(* the run ends with a failure of the open, and the destination is neither *)
(* created nor modified: the open of the source comes, and fails, before   *)
(* any access to the destination.                                          *)
(***************************************************************************)
C4_OpenFailsBeforeDestination ==
    /\ (srcStatus # "ok" /\ Len(argv) >= 3 /\ pc \notin {"start", "open"}) =>
          /\ Exited
          /\ failure.stage = "open"
          /\ failure.exc \in {"FileNotFoundError", "PermissionError", "PdfReadError"}
          /\ exitStatus # 0
          /\ stdout = <<>>
          /\ ~DestinationTouched
          /\ file = fileAtStart
    /\ DestinationTouched =>
          /\ srcStatus = "ok"
          /\ ioLog[1] = Access("open_r", argv[2], TRUE)
          /\ \A i \in DOMAIN ioLog : ioLog[i].op = "open_r" => i = 1

C4_Witness ==
    /\ Exited
    /\ failure = [stage |-> "open", exc |-> "FileNotFoundError"]
    /\ srcStatus = "missing"
    /\ destDir = "ok"
    /\ ~file.exists

(***************************************************************************)
(* C5 as stated: any invocation whose number of positional arguments is    *)
(* not exactly two (zero, one, three or more) ends at once with the usage  *)
(* message and a non-zero status, before any I/O on either path.           *)
(***************************************************************************)
C5_NotExactlyTwoArgumentsIsUsageError ==
    (Len(argv) - 1 # 2 /\ pc # "start") =>
        /\ Exited
        /\ failure.stage = "usage"
        /\ stderr = <<UsageMessage>>
        /\ exitStatus # 0
        /\ ioLog = <<>>

(***************************************************************************)
(* C6: an invocation with fewer than two positional arguments ends with    *)
(* the usage message and a non-zero status before any file-system access   *)
(* to either path; on every execution the argument check precedes the      *)
(* open of the source and the write of the target.                         *)
(***************************************************************************)
C6_FewerThanTwoArgumentsIsUsageError ==
    /\ (Len(argv) - 1 < 2 /\ pc # "start") =>
          /\ Exited
          /\ failure.stage = "usage"
          /\ stderr = <<UsageMessage>>
          /\ stdout = <<>>
          /\ exitStatus # 0
          /\ ioLog = <<>>
          /\ file = fileAtStart
    /\ pc = "start" => ioLog = <<>> /\ file = fileAtStart
    /\ ioLog # <<>> => Len(argv) - 1 >= 2

C6_Witness ==
    /\ Exited
    /\ Len(argv) - 1 = 1
    /\ srcStatus = "ok"
    /\ destDir = "ok"
    /\ stderr = <<UsageMessage>>

(***************************************************************************)
(* C7: for a page k whose extraction yields no text (None or the empty     *)
(* string) the section is exactly "--- PAGE k ---\n", no error is raised,  *)
(* and the loop goes on with page k+1, the later pages keeping their own   *)
(* 1-based index.                                                          *)
(***************************************************************************)
C7_NoTextPageIsEmptySection ==
    /\ \A k \in 1..Len(sections) :
          /\ (reader[k] = NoneResult \/ reader[k] = TextResult(<<>>)) =>
                sections[k] = MarkerLine(k)
          /\ sections[k] = MarkerLine(k) \o PageText(reader[k])
    /\ failure.stage = "extract" =>
          /\ count < Len(reader)
          /\ reader[count + 1] = RaiseResult
    /\ (OpenSucceeded /\ pc # "loop") =>
          \/ count = Len(reader)
          \/ reader[count + 1] = RaiseResult

C7_Witness ==
    /\ Len(sections) = 3
    /\ reader[1] = NoneResult
    /\ reader[2] = TextResult(<<>>)
    /\ reader[3] = TextResult(World)
    /\ sections[1] = MarkerLine(1)
    /\ sections[2] = MarkerLine(2)

(***************************************************************************)
(* C8: for a document with zero pages the output text is the empty         *)
(* string, the file written is empty (no marker, no separator), and the    *)
(* run completes successfully.                                             *)
(***************************************************************************)
C8_ZeroPagesEmptyFile ==
    (srcStatus = "ok" /\ doc = <<>>) =>
        /\ Joined => output = <<>>
        /\ WriteSucceeded => file = [exists |-> TRUE, data |-> <<>>]
        /\ failure.stage \notin {"extract"}
        /\ failure.exc # "OSError"
        /\ (Exited /\ Len(argv) - 1 >= 2 /\ destDir = "ok") =>
              /\ exitStatus = 0
              /\ stdout = <<Message(argv[3], 0)>>
              /\ file = [exists |-> TRUE, data |-> <<>>]

C8_Witness ==
    /\ Exited
    /\ exitStatus = 0
    /\ srcStatus = "ok"
    /\ doc = <<>>
    /\ fileAtStart = [exists |-> TRUE, data |-> OldContent]
    /\ file = [exists |-> TRUE, data |-> <<>>]

(***************************************************************************)
(* C9: a run ends with status 0 and the message "Wrote {path} ({n} pages)" *)
(* if and only if the open, every extraction and the write succeeded; the  *)
(* message is printed once, only after the destination holds the complete  *)
(* output, and its page count is the number of sections written; every     *)
(* failure ends the run with a non-zero status and no message.             *)
(***************************************************************************)
C9_ExitStatusAndMessage ==
    /\ Len(stdout) <= 1
    /\ stdout # <<>> =>
          /\ Exited
          /\ exitStatus = 0
          /\ stdout = <<Message(argv[3], Len(sections))>>
          /\ Len(sections) = Len(doc)
          /\ output = Join(Separator, sections)
          /\ file = [exists |-> TRUE, data |-> output]
    /\ Exited =>
          /\ exitStatus = 0 <=>
                (OpenSucceeded /\ NoExtractionRaises /\ WriteSucceeded)
          /\ exitStatus = 0 <=> stdout # <<>>
          /\ exitStatus = 0 <=> failure = NoFailure
          /\ failure # NoFailure =>
                /\ exitStatus = 1
                /\ stderr # <<>>
                /\ stdout = <<>>
    /\ ~Exited => failure = NoFailure /\ stderr = <<>>

C9_Witness ==
    /\ Exited
    /\ exitStatus = 0
    /\ Len(doc) = 3
    /\ stdout = << <<"Wrote ", "out.txt", " (", "3", " pages)">> >>
    /\ file.data = output

(***************************************************************************)
(* C10: two runs in succession with the same input and output path, both   *)
(* of which complete, leave the output file after the second run           *)
(* identical to what it was after the first, and so do two runs neither    *)
(* of whose writes is cut short by a full disk; a run overwrites, and      *)
(* what it writes does not depend on what the destination held before.     *)
(***************************************************************************)
C10_SecondRunSameFile ==
    /\ (run = 2 /\ Exited /\ exitStatus = 0 /\ prevFailure = NoFailure) =>
          file = fileAtStart
    /\ (run = 2 /\ Exited /\ failure.exc # "OSError"
              /\ prevFailure.exc # "OSError") =>
          file = fileAtStart
    /\ (Exited /\ exitStatus = 0) =>
          file = [exists |-> TRUE, data |-> ExpectedOutput(doc, Len(doc))]

C10_Witness ==
    /\ run = 2
    /\ Exited
    /\ exitStatus = 0
    /\ prevFailure = NoFailure
    /\ Len(doc) = 2
    /\ file = fileAtStart
    /\ Len(file.data) > Len(OldContent)

====
